---- MODULE Spec2Model ----
(***************************************************************************)
(* The FireSat constellation entity of examples/firesat/satellites:        *)
(* fires, detection and report records, the ground registry, and the       *)
(* tick/tock step with its notifications.                                  *)
(*                                                                         *)
(* Orbit propagation (skyfield) is the environment: at every tick it       *)
(* yields an altitude per satellite and an elevation angle per satellite   *)
(* and ground location.  Angles are whole degrees, lengths kilometres,     *)
(* sines and cosines are scaled by 1000.                                   *)
(***************************************************************************)
EXTENDS Integers, Sequences, FiniteSets, TLC

\* ---------------------------------------------------------------- bounds
MaxTime == 2        \* ticks of a run
MaxFires == 2       \* FireStarted events of a run
MaxGrounds == 1     \* rows of the ground registry
MaxGroundRows == 2  \* rows of the ground registry in the runs of SpecGround
MaxAltitude == 15   \* altitudes of the runs of SpecElevation, in hundreds of kilometres
MaxMessages == 3    \* messages the geoJSON consumer receives in a run

\* ------------------------------------------------------- values of a run
None == -1                       \* Python None in a number-valued slot
NoName == "None"                 \* Python None in a name-valued slot
names == <<"SAT1", "SAT2">>      \* Constellation.names
NumSats == Len(names)
SatIdx == 1..NumSats
NameSet == {names[i] : i \in SatIdx}
FIELD_OF_REGARD == <<120, 60>>   \* application_configuration, per satellite
FireIds == {1, 2}
Locs == {"P", "Q"}               \* latitude-longitude points on the ground
\* the fire scenario: a FireStarted event carries the location of its fireId
FireLocation(fireId) == IF fireId = 1 THEN "P" ELSE "Q"
Elevs == {10, 50}                \* elevation angles (degrees) the propagation yields
GroundIds == {0, 2}
GroundLocs == {"P"}
GroundElevAngles == {50}
InitTime == 0
TimeStep == 1

VARIABLES
    phase,                \* "new" | "ready" (initialized or after tock) | "ticked"
    time,                 \* Entity._time
    next_time,            \* Entity._next_time
    fires,                \* Constellation.fires
    grounds,              \* Constellation.grounds: [frame, rows]; frame is FALSE while it is None
    detect,               \* Constellation.detect
    report,               \* Constellation.report
    positions,            \* Constellation.positions
    next_positions,       \* Constellation.next_positions
    min_elevations_fire,  \* Constellation.min_elevations_fire
    log,                  \* every notify_observers call of the run, in order
    viewed,               \* history: the <<j, i>> with check_in_view true in some tick
    viewing,              \* history: the <<j, i>> with check_in_view true in the last tick
    err,                  \* exception raised by the last handler, or "ok"
    lastCall,             \* history: the last GroundLocation event on_ground handled
    lastElev,             \* history: the elevation angles of the last tick
    handled,              \* history: the last message the fire application handled
    calc,                 \* a call of compute_min_elevation: arguments and result
    racing,               \* on_fire under way on the messaging thread: [pc, fireId, loc]
    envFires,             \* Environment.fires of the fire application, by fireId
    envTime,              \* time of the fire application's simulator
    sent,                 \* history: every FireStarted the fire application sent
    inbox,                \* messages on their way to the fire application
    cqueue,               \* FireStarted messages on their way to the constellation
    detected_by,          \* global detected_by of the geoJSON consumer
    detected_time,        \* global detected_time of the geoJSON consumer
    features,             \* the features of the file data.geojson
    received              \* history: every message the geoJSON consumer handled

\* the variables of the fire application and of the message broker
envVars == <<envFires, envTime, sent, inbox, cqueue>>

\* the variables of the geoJSON consumer
geoVars == <<detected_by, detected_time, features, received>>

\* the history of the calls, and what the runs of one function or of two
\* threads keep
others == <<lastCall, lastElev, handled, calc, racing, geoVars>>

\* the variables the handlers of the constellation do not touch
aside == <<others, envVars>>

\* the variables of the constellation
constellationVars == <<phase, time, next_time, fires, grounds, detect, report, positions,
                       next_positions, min_elevations_fire, log, viewed, viewing, err>>

vars == <<phase, time, next_time, fires, grounds, detect, report, positions,
          next_positions, min_elevations_fire, log, viewed, viewing, err, lastCall,
          lastElev, handled, calc, racing, envFires, envTime, sent, inbox, cqueue,
          detected_by, detected_time, features, received>>

\* -------------------------------------------------------------- geometry
SinMilli(a) ==
    CASE a = 0 -> 0 [] a = 30 -> 500 [] a = 60 -> 866 [] a = 90 -> 1000
      [] a = 120 -> 866 [] a = 150 -> 500 [] a = 180 -> 0

CosMilli(d) ==
    CASE d = 0 -> 1000 [] d = 10 -> 985 [] d = 20 -> 940 [] d = 30 -> 866
      [] d = 40 -> 766 [] d = 50 -> 643 [] d = 60 -> 500 [] d = 70 -> 342
      [] d = 80 -> 174 [] d = 90 -> 0

Max(S) == CHOOSE x \in S : \A y \in S : y <= x

\* degrees(arccos(c / 1000)), rounded down to the 10-degree grid
ArccosDeg(c) == Max({d \in {0, 10, 20, 30, 40, 50, 60, 70, 80, 90} : CosMilli(d) >= c})

compute_min_elevation(altitude, field_of_regard) ==
    LET earth_equatorial_radius == 6378
        earth_polar_radius == 6357
        earth_mean_radius == (2 * earth_equatorial_radius + earth_polar_radius) \div 3
        sin_eta == SinMilli(field_of_regard \div 2)
        sin_rho == (earth_mean_radius * 1000) \div (earth_mean_radius + altitude)
        cos_epsilon == (sin_eta * 1000) \div sin_rho
    IN IF cos_epsilon > 1000 THEN 0 ELSE ArccosDeg(cos_epsilon)

\* mutant: the satellite's minimum elevation is ignored (anything above the horizon)
check_in_view_Horizon(elevationFromFire, min_elevation) ==
    elevationFromFire >= 0

check_in_view(elevationFromFire, min_elevation) ==
    elevationFromFire >= min_elevation

\* rows of the registry carry the index labels 0, 1, ... (ignore_index=True)
\* mutant: the operational flag of the station is ignored
RECURSIVE InRangeFrom_AnyStatus(_, _, _)
InRangeFrom_AnyStatus(k, elevOf, table) ==
    IF k > Len(table) THEN [isInRange |-> FALSE, groundId |-> None]
    ELSE IF elevOf[table[k].loc] >= table[k].elevAngle
         THEN [isInRange |-> TRUE, groundId |-> k - 1]
         ELSE InRangeFrom_AnyStatus(k + 1, elevOf, table)

RECURSIVE InRangeFrom(_, _, _)
InRangeFrom(k, elevOf, table) ==
    IF k > Len(table) THEN [isInRange |-> FALSE, groundId |-> None]
    ELSE IF table[k].operational /\ elevOf[table[k].loc] >= table[k].elevAngle
         THEN [isInRange |-> TRUE, groundId |-> k - 1]
         ELSE InRangeFrom(k + 1, elevOf, table)

check_in_range(elevOf, table) == InRangeFrom(1, elevOf, table)

\* ------------------------------------------------------ records and rows
\* mutant: the satellite entries start at time 0 instead of None
satelliteDictionary_Zero(fireId) ==
    [k \in NameSet \cup {"fireId"} |-> IF k = "fireId" THEN fireId ELSE 0]

\* dict.fromkeys(self.names) with "fireId" added
satelliteDictionary(fireId) ==
    [k \in NameSet \cup {"fireId"} |-> IF k = "fireId" THEN fireId ELSE None]

detectDictionary(fireId) ==
    satelliteDictionary(fireId) @@ [firstDetect |-> FALSE, firstDetector |-> NoName]

\* mutant: the report record is made from a dictionary without the fireId
reportDictionary_Unkeyed(fireId) ==
    satelliteDictionary(None)
        @@ [firstReport |-> FALSE, firstReporter |-> NoName, firstReportedTo |-> None]

reportDictionary(fireId) ==
    satelliteDictionary(fireId)
        @@ [firstReport |-> FALSE, firstReporter |-> NoName, firstReportedTo |-> None]

\* the orbit: altitude (km) of satellite i at time t, None standing for its epoch
Altitude(i, t) == IF t # None /\ (i + t) % 2 = 1 THEN 800 ELSE 500

\* wgs84.subpoint(satellite.at(t)) of satellite i
subpoint(i, t) == [t |-> t, alt |-> Altitude(i, t)]

NoCall == [groundId |-> None]
NoElev == <<>>
NoMessage == [topic |-> NoName]
NoCalc == [altitude |-> None]
NoRace == [pc |-> "idle"]

\* nothing handled or computed yet, no handler under way
OthersInit ==
    /\ lastCall = NoCall
    /\ lastElev = NoElev
    /\ handled = NoMessage
    /\ calc = NoCalc
    /\ racing = NoRace
    /\ detected_by = None
    /\ detected_time = None
    /\ features = <<>>
    /\ received = <<>>

ConstellationInit ==
    /\ phase = "new"
    /\ time = None
    /\ next_time = None
    /\ fires = <<>>
    /\ grounds = [frame |-> FALSE, rows |-> <<>>]
    /\ detect = <<>>
    /\ report = <<>>
    /\ positions = [i \in SatIdx |-> None]
    /\ next_positions = [i \in SatIdx |-> None]
    /\ min_elevations_fire =
          [i \in SatIdx |-> compute_min_elevation(subpoint(i, None).alt, FIELD_OF_REGARD[i])]
    /\ log = <<>>
    /\ viewed = {}
    /\ viewing = {}
    /\ err = "ok"

\* the initial values of the columns detected and detected_by, reported and
\* reported_by of the fire table
Epoch1900 == -1900
Undetected == "Undetected"
Unreported == "Unreported"

\* the fire table of a scenario whose fires ignite at start[fireId]
Scenario(start) ==
    [fireId \in FireIds |->
        [fireId |-> fireId, fireState |-> "undefined", start |-> start[fireId],
         detected |-> Epoch1900, detected_by |-> Undetected,
         reported |-> Epoch1900, reported_by |-> Unreported, reported_to |-> None,
         loc |-> FireLocation(fireId)]]

EnvironmentInit(start) ==
    /\ envFires = Scenario(start)
    /\ envTime = InitTime
    /\ sent = <<>>
    /\ inbox = <<>>
    /\ cqueue = <<>>

\* the constellation alone: the fire application takes no step
Init ==
    /\ ConstellationInit
    /\ OthersInit
    /\ EnvironmentInit([fireId \in FireIds |-> InitTime])

\* ------------------------------------------------------------ initialize
\* mutant: the ground registry is not created
initialize_NoFrame ==
    /\ phase = "new"
    /\ phase' = "ready"
    /\ time' = InitTime
    /\ next_time' = InitTime
    /\ positions' = [i \in SatIdx |-> subpoint(i, InitTime)]
    /\ next_positions' = positions'
    /\ err' = "ok"
    /\ UNCHANGED <<fires, grounds, detect, report, min_elevations_fire, log, viewed, viewing>>

initialize ==
    /\ phase = "new"
    /\ phase' = "ready"
    /\ time' = InitTime
    /\ next_time' = InitTime
    /\ grounds' = [frame |-> TRUE, rows |-> <<>>]
    /\ positions' = [i \in SatIdx |-> subpoint(i, InitTime)]
    /\ next_positions' = positions'
    /\ err' = "ok"
    /\ UNCHANGED <<fires, detect, report, min_elevations_fire, log, viewed, viewing>>

\* ------------------------------------------------------------------ tick
\* mutant: the satellite is recorded but the firstDetect flag is not raised
DetectStep_NoFlag(d, name, isInView, then) ==
    IF isInView
    THEN LET d1 == [d EXCEPT ![name] = then]
         IN IF d1.firstDetector = NoName
            THEN [d1 EXCEPT !.firstDetector = name]
            ELSE d1
    ELSE d

\* mutant: firstDetector is assigned at every detection (no "is None" test)
DetectStep_Relatch(d, name, isInView, then) ==
    IF isInView
    THEN [d EXCEPT ![name] = then, !.firstDetect = TRUE, !.firstDetector = name]
    ELSE d

\* mutant: the latch is outside the "if isInView" block
DetectStep_LatchOutside(d, name, isInView, then) ==
    LET d1 == IF isInView THEN [d EXCEPT ![name] = then] ELSE d
    IN IF d1.firstDetector = NoName
       THEN [d1 EXCEPT !.firstDetect = TRUE, !.firstDetector = name]
       ELSE d1

\* lines 263-269: one satellite's detection of one fire
DetectStep(d, name, isInView, then) ==
    IF isInView
    THEN LET d1 == [d EXCEPT ![name] = then]
         IN IF d1.firstDetector = NoName
            THEN [d1 EXCEPT !.firstDetect = TRUE, !.firstDetector = name]
            ELSE d1
    ELSE d

\* mutant: a report does not wait for the satellite's own detection
ReportStep_NoDetectGuard(r, d, name, elevOf, table, then) ==
    IF r[name] = None
    THEN LET res == check_in_range(elevOf, table)
         IN IF res.isInRange
            THEN LET r1 == [r EXCEPT ![name] = then]
                 IN IF r1.firstReporter = NoName
                    THEN [r1 EXCEPT !.firstReport = TRUE,
                                    !.firstReporter = name,
                                    !.firstReportedTo = res.groundId]
                    ELSE r1
            ELSE r
    ELSE r

\* mutant: a satellite reports again while it is in range
ReportStep_Rewrite(r, d, name, elevOf, table, then) ==
    IF d[name] # None
    THEN LET res == check_in_range(elevOf, table)
         IN IF res.isInRange
            THEN LET r1 == [r EXCEPT ![name] = then]
                 IN IF r1.firstReporter = NoName
                    THEN [r1 EXCEPT !.firstReport = TRUE,
                                    !.firstReporter = name,
                                    !.firstReportedTo = res.groundId]
                    ELSE r1
            ELSE r
    ELSE r

\* lines 270-279: one satellite's report of one fire
ReportStep(r, d, name, elevOf, table, then) ==
    IF d[name] # None /\ r[name] = None
    THEN LET res == check_in_range(elevOf, table)
         IN IF res.isInRange
            THEN LET r1 == [r EXCEPT ![name] = then]
                 IN IF r1.firstReporter = NoName
                    THEN [r1 EXCEPT !.firstReport = TRUE,
                                    !.firstReporter = name,
                                    !.firstReportedTo = res.groundId]
                    ELSE r1
            ELSE r
    ELSE r

\* body of the loop over fires for satellite i and fire j, on the pair of records
TickPair(p, i, fire, elev, minElev, table, then) ==
    LET d1 == DetectStep(p.d, names[i],
                         check_in_view(elev[i][fire.loc], minElev[i]), then)
        r1 == ReportStep(p.r, d1, names[i], elev[i], table, then)
    IN [d |-> d1, r |-> r1]

\* mutant: the satellites are taken from the last to the first
RECURSIVE TickSats_Reverse(_, _, _, _, _, _, _)
TickSats_Reverse(p, i, fire, elev, minElev, table, then) ==
    IF i > NumSats THEN p
    ELSE TickSats_Reverse(TickPair(p, NumSats + 1 - i, fire, elev, minElev, table, then),
                          i + 1, fire, elev, minElev, table, then)

\* the satellites i, i+1, ... in constellation order, for one fire
RECURSIVE TickSats(_, _, _, _, _, _, _)
TickSats(p, i, fire, elev, minElev, table, then) ==
    IF i > NumSats THEN p
    ELSE TickSats(TickPair(p, i, fire, elev, minElev, table, then),
                  i + 1, fire, elev, minElev, table, then)

\* mutant: tick notifies the detections it has just latched
TickNotifications_Eager(ds, rs, at) ==
    LET F[j \in 0..Len(ds)] ==
            IF j = 0 THEN <<>>
            ELSE F[j - 1] \o (IF ds[j].firstDetect
                              THEN <<[kind |-> "detected", fireId |-> ds[j].fireId,
                                      when |-> ds[j][ds[j].firstDetector],
                                      by |-> ds[j].firstDetector,
                                      to |-> None, j |-> j, tock |-> at]>>
                              ELSE <<>>)
    IN F[Len(ds)]

\* what tick sends to the observers: it calls notify_observers nowhere
TickNotifications(ds, rs, at) == <<>>

tick(elev) ==
    /\ phase = "ready"
    /\ time < MaxTime
    /\ LET then == time + TimeStep
           nextPos == [i \in SatIdx |-> subpoint(i, then)]
           minElev == [i \in SatIdx |->
                          compute_min_elevation(nextPos[i].alt, FIELD_OF_REGARD[i])]
           done == [j \in DOMAIN fires |->
                       TickSats([d |-> detect[j], r |-> report[j]], 1, fires[j],
                                elev, minElev, grounds.rows, then)]
       IN /\ next_time' = then
          /\ next_positions' = nextPos
          /\ min_elevations_fire' = minElev
          /\ detect' = [j \in DOMAIN fires |-> done[j].d]
          /\ report' = [j \in DOMAIN fires |-> done[j].r]
          /\ viewing' = {v \in (DOMAIN fires) \X SatIdx :
                             elev[v[2]][fires[v[1]].loc] >= minElev[v[2]]}
          /\ viewed' = viewed \cup viewing'
          /\ log' = log \o TickNotifications(detect', report', then)
    /\ phase' = "ticked"
    /\ err' = "ok"
    /\ UNCHANGED <<time, fires, grounds, positions>>

\* ------------------------------------------------------------------ tock
\* mutant: the detections are notified from the last fire to the first
DetectedFrom_Reverse(j, ds, at) ==
    LET F[k \in (j - 1)..Len(ds)] ==
            IF k < j THEN <<>>
            ELSE (IF ds[k].firstDetect
                  THEN <<[kind |-> "detected", fireId |-> ds[k].fireId,
                          when |-> ds[k][ds[k].firstDetector],
                          by |-> ds[k].firstDetector,
                          to |-> None, j |-> k, tock |-> at]>>
                  ELSE <<>>) \o F[k - 1]
    IN F[Len(ds)]

RECURSIVE DetectedFrom(_, _, _)
DetectedFrom(j, ds, at) ==
    IF j > Len(ds) THEN <<>>
    ELSE (IF ds[j].firstDetect
          THEN <<[kind |-> "detected", fireId |-> ds[j].fireId,
                  when |-> ds[j][ds[j].firstDetector], by |-> ds[j].firstDetector,
                  to |-> None, j |-> j, tock |-> at]>>
          ELSE <<>>) \o DetectedFrom(j + 1, ds, at)

RECURSIVE ReportedFrom(_, _, _)
ReportedFrom(j, rs, at) ==
    IF j > Len(rs) THEN <<>>
    ELSE (IF rs[j].firstReport
          THEN <<[kind |-> "reported", fireId |-> rs[j].fireId,
                  when |-> rs[j][rs[j].firstReporter], by |-> rs[j].firstReporter,
                  to |-> rs[j].firstReportedTo, j |-> j, tock |-> at]>>
          ELSE <<>>) \o ReportedFrom(j + 1, rs, at)

\* mutant: the loop over the reports runs before the loop over the detections
Notifications_ReportedFirst(ds, rs, at) == ReportedFrom(1, rs, at) \o DetectedFrom(1, ds, at)

\* what one tock sends to the observers, in order
Notifications(ds, rs, at) == DetectedFrom(1, ds, at) \o ReportedFrom(1, rs, at)

\* the detection records after tock (line 299 is commented out)
DetectAfterTock(ds) == ds

\* mutant: firstReport is not cleared
ReportAfterTock_Keep(rs) == rs

\* the report records after tock (line 313)
ReportAfterTock(rs) == [j \in DOMAIN rs |-> [rs[j] EXCEPT !.firstReport = FALSE]]

\* mutant: the positions are not committed
tock_Stale ==
    /\ phase = "ticked"
    /\ phase' = "ready"
    /\ log' = log \o Notifications(detect, report, next_time)
    /\ detect' = DetectAfterTock(detect)
    /\ report' = ReportAfterTock(report)
    /\ time' = next_time
    /\ err' = "ok"
    /\ UNCHANGED <<next_time, fires, grounds, positions, next_positions,
                   min_elevations_fire, viewed, viewing>>

tock ==
    /\ phase = "ticked"
    /\ phase' = "ready"
    /\ positions' = next_positions
    /\ log' = log \o Notifications(detect, report, next_time)
    /\ detect' = DetectAfterTock(detect)
    /\ report' = ReportAfterTock(report)
    /\ time' = next_time
    /\ err' = "ok"
    /\ UNCHANGED <<next_time, fires, grounds, next_positions, min_elevations_fire, viewed, viewing>>

\* --------------------------------------------------------------- on_fire
on_fire(fireId, loc) ==
    /\ Len(fires) < MaxFires
    /\ fires' = Append(fires, [fireId |-> fireId, loc |-> loc])
    /\ detect' = Append(detect, detectDictionary(fireId))
    /\ report' = Append(report, reportDictionary(fireId))
    /\ err' = "ok"
    /\ UNCHANGED <<phase, time, next_time, grounds, positions, next_positions,
                   min_elevations_fire, log, viewed, viewing>>

\* ------------------------------------------------------------- on_ground
\* "location.groundId in self.grounds.groundId" tests the index labels of the
\* column; the four assignments of the update branch go to a selection copy
GroundKnown(groundId, table) == groundId \in 0..(Len(table) - 1)

on_ground(groundId, loc, elevAngle, operational) ==
    /\ IF ~grounds.frame
       THEN /\ err' = "AttributeError"
            /\ UNCHANGED grounds
       ELSE /\ err' = "ok"
            /\ IF GroundKnown(groundId, grounds.rows)
               THEN UNCHANGED grounds
               ELSE grounds' = [grounds EXCEPT !.rows =
                        Append(@, [groundId |-> groundId, loc |-> loc,
                                   elevAngle |-> elevAngle,
                                   operational |-> operational])]
    /\ UNCHANGED <<phase, time, next_time, fires, detect, report, positions,
                   next_positions, min_elevations_fire, log, viewed, viewing>>

\* the registry takes this event without growing beyond max rows
GroundRoom(groundId, max) ==
    \/ ~grounds.frame
    \/ GroundKnown(groundId, grounds.rows)
    \/ Len(grounds.rows) < max

Next ==
    \/ initialize /\ UNCHANGED aside
    \/ \E elev \in [SatIdx -> [Locs -> Elevs]] : tick(elev) /\ UNCHANGED aside
    \/ tock /\ UNCHANGED aside
    \/ \E fireId \in FireIds : on_fire(fireId, FireLocation(fireId)) /\ UNCHANGED aside
    \/ \E groundId \in GroundIds, loc \in GroundLocs, elevAngle \in GroundElevAngles,
          operational \in BOOLEAN :
            /\ GroundRoom(groundId, MaxGrounds)
            /\ on_ground(groundId, loc, elevAngle, operational)
            /\ UNCHANGED aside

Spec == Init /\ [][Next]_vars

\* ----------------------------------------------- runs of the ground registry
\* one fire, and GroundLocation events of either required elevation angle
GroundElevAnglesG == {10, 50}

\* the event just handled; fresh: no row carried its groundId before the call
GroundCall(groundId, loc, elevAngle, operational) ==
    IF grounds.frame
    THEN [groundId |-> groundId, loc |-> loc, elevAngle |-> elevAngle,
          operational |-> operational,
          fresh |-> \A k \in DOMAIN grounds.rows : grounds.rows[k].groundId # groundId]
    ELSE lastCall

NextGround ==
    \/ initialize /\ UNCHANGED aside
    \/ \E elev \in [SatIdx -> [Locs -> Elevs]] : tick(elev) /\ UNCHANGED aside
    \/ tock /\ UNCHANGED aside
    \/ Len(fires) = 0 /\ on_fire(1, FireLocation(1)) /\ UNCHANGED aside
    \/ \E groundId \in GroundIds, loc \in GroundLocs, elevAngle \in GroundElevAnglesG,
          operational \in BOOLEAN :
            /\ GroundRoom(groundId, MaxGroundRows)
            /\ on_ground(groundId, loc, elevAngle, operational)
            /\ lastCall' = GroundCall(groundId, loc, elevAngle, operational)
            /\ UNCHANGED <<lastElev, handled, calc, racing, envVars, geoVars>>

SpecGround == Init /\ [][NextGround]_vars

\* ------------------------------------------------- the fire application
StartTimes == 0..MaxTime

\* FireStarted of a row of the fire table, sent at time at
FireStarted(fire, at) ==
    [topic |-> "location", fireId |-> fire.fireId, start |-> fire.start,
     loc |-> fire.loc, at |-> at]

\* the FireStarted messages of the rows from fireId on that ignite after
\* old_value and not after new_value, in the order of the table
RECURSIVE NewFiresFrom(_, _, _, _)
NewFiresFrom(fireId, table, old_value, new_value) ==
    IF fireId \notin DOMAIN table THEN <<>>
    ELSE (IF table[fireId].start <= new_value /\ table[fireId].start > old_value
          THEN <<FireStarted(table[fireId], new_value)>>
          ELSE <<>>) \o NewFiresFrom(fireId + 1, table, old_value, new_value)

Environment_on_change(property_name, old_value, new_value) ==
    /\ IF property_name = "time"
       THEN LET msgs == NewFiresFrom(1, envFires, old_value, new_value)
            IN /\ sent' = sent \o msgs
               /\ inbox' = inbox \o msgs
               /\ cqueue' = cqueue \o msgs
               /\ envTime' = new_value
       ELSE UNCHANGED <<sent, inbox, cqueue, envTime>>
    /\ UNCHANGED envFires

\* the for loop over the rows: the row whose key is the fireId, if any
Environment_on_fire(start) ==
    /\ envFires' = [key \in DOMAIN envFires |->
                       IF key = start.fireId
                       THEN [envFires[key] EXCEPT !.fireState = "started"]
                       ELSE envFires[key]]
    /\ UNCHANGED <<envTime, sent, cqueue>>

\* mutant: the rows are not compared with the fireId of the message
Environment_on_detected_EveryRow(detect_msg) ==
    /\ envFires' = [key \in DOMAIN envFires |->
                       [envFires[key] EXCEPT !.fireState = "detected",
                                             !.detected = detect_msg.detected,
                                             !.detected_by = detect_msg.detected_by]]
    /\ UNCHANGED <<envTime, sent, cqueue>>

Environment_on_detected(detect_msg) ==
    /\ envFires' = [key \in DOMAIN envFires |->
                       IF key = detect_msg.fireId
                       THEN [envFires[key] EXCEPT !.fireState = "detected",
                                                  !.detected = detect_msg.detected,
                                                  !.detected_by = detect_msg.detected_by]
                       ELSE envFires[key]]
    /\ UNCHANGED <<envTime, sent, cqueue>>

Environment_on_reported(report_msg) ==
    /\ envFires' = [key \in DOMAIN envFires |->
                       IF key = report_msg.fireId
                       THEN [envFires[key] EXCEPT !.fireState = "reported",
                                                  !.reported = report_msg.reported,
                                                  !.reported_by = report_msg.reported_by,
                                                  !.reported_to = report_msg.reported_to]
                       ELSE envFires[key]]
    /\ UNCHANGED <<envTime, sent, cqueue>>

\* FireDetectedObserver and FireReportedObserver: the message of a notification
Published(n) ==
    IF n.kind = "detected"
    THEN [topic |-> "detected", fireId |-> n.fireId, detected |-> n.when,
          detected_by |-> n.by]
    ELSE [topic |-> "reported", fireId |-> n.fireId, reported |-> n.when,
          reported_by |-> n.by, reported_to |-> n.to]

\* the fire application and the constellation on one broker: the constellation
\* takes its fires from the FireStarted messages, the fire application takes
\* its own FireStarted and the constellation's messages in the order published
NextFire ==
    \/ initialize /\ UNCHANGED aside
    \/ \E elev \in [SatIdx -> [Locs -> Elevs]] : tick(elev) /\ UNCHANGED aside
    \/ /\ tock
       /\ inbox' = inbox \o [n \in 1..(Len(log') - Len(log)) |-> Published(log'[Len(log) + n])]
       /\ UNCHANGED <<others, envFires, envTime, sent, cqueue>>
    \/ /\ cqueue # <<>>
       /\ on_fire(Head(cqueue).fireId, Head(cqueue).loc)
       /\ cqueue' = Tail(cqueue)
       /\ UNCHANGED <<others, envFires, envTime, sent, inbox>>
    \/ \E groundId \in GroundIds, loc \in GroundLocs, elevAngle \in GroundElevAngles,
          operational \in BOOLEAN :
            /\ GroundRoom(groundId, MaxGrounds)
            /\ on_ground(groundId, loc, elevAngle, operational)
            /\ UNCHANGED aside
    \/ \E property_name \in {"time", "mode"}, new_value \in StartTimes :
            /\ new_value > envTime
            /\ Environment_on_change(property_name, envTime, new_value)
            /\ UNCHANGED <<constellationVars, others>>
    \/ /\ inbox # <<>> /\ Head(inbox).topic = "location"
       /\ Environment_on_fire(Head(inbox))
       /\ inbox' = Tail(inbox)
       /\ UNCHANGED <<constellationVars, others>>
    \/ /\ inbox # <<>> /\ Head(inbox).topic = "detected"
       /\ Environment_on_detected(Head(inbox))
       /\ inbox' = Tail(inbox)
       /\ UNCHANGED <<constellationVars, others>>
    \/ /\ inbox # <<>> /\ Head(inbox).topic = "reported"
       /\ Environment_on_reported(Head(inbox))
       /\ inbox' = Tail(inbox)
       /\ UNCHANGED <<constellationVars, others>>

InitFire ==
    /\ ConstellationInit
    /\ OthersInit
    /\ \E start \in [FireIds -> StartTimes] : EnvironmentInit(start)

SpecFire == InitFire /\ [][NextFire]_vars

\* ------------------------------------- the fire application on its own
\* the fireId of the messages other applications publish: those of the fire
\* table and one more
MessageFireIds == {1, 2, 3}

StartedMessages ==
    {[topic |-> "location", fireId |-> fireId, start |-> envTime,
      loc |-> FireLocation(fireId), at |-> envTime] : fireId \in MessageFireIds}

DetectedMessages ==
    {[topic |-> "detected", fireId |-> fireId, detected |-> envTime,
      detected_by |-> names[1]] : fireId \in MessageFireIds}

ReportedMessages ==
    {[topic |-> "reported", fireId |-> fireId, reported |-> envTime,
      reported_by |-> names[1], reported_to |-> 0] : fireId \in MessageFireIds}

\* what a message callback leaves alone, the message it handled being recorded
Handled(msg) ==
    /\ handled' = msg
    /\ UNCHANGED <<constellationVars, lastCall, lastElev, calc, racing, inbox, geoVars>>

NextEnv ==
    \/ \E property_name \in {"time", "mode"}, new_value \in StartTimes :
            /\ new_value > envTime
            /\ Environment_on_change(property_name, envTime, new_value)
            /\ UNCHANGED <<constellationVars, others>>
    \/ \E msg \in StartedMessages : Environment_on_fire(msg) /\ Handled(msg)
    \/ \E msg \in DetectedMessages : Environment_on_detected(msg) /\ Handled(msg)
    \/ \E msg \in ReportedMessages : Environment_on_reported(msg) /\ Handled(msg)

SpecEnv == Init /\ [][NextEnv]_vars

\* --------------------------------- runs that keep the elevations of a tick
\* one fire, ground stations at either location, and the elevation angles
\* each tick got from the propagation being recorded
NextTie ==
    \/ initialize /\ UNCHANGED aside
    \/ \E elev \in [SatIdx -> [Locs -> Elevs]] :
            /\ tick(elev)
            /\ lastElev' = elev
            /\ UNCHANGED <<lastCall, handled, calc, racing, envVars, geoVars>>
    \/ tock /\ UNCHANGED aside
    \/ Len(fires) = 0 /\ on_fire(1, FireLocation(1)) /\ UNCHANGED aside
    \/ \E groundId \in GroundIds, loc \in Locs, elevAngle \in GroundElevAngles,
          operational \in BOOLEAN :
            /\ GroundRoom(groundId, MaxGroundRows)
            /\ on_ground(groundId, loc, elevAngle, operational)
            /\ UNCHANGED aside

SpecTie == Init /\ [][NextTie]_vars

\* ------------------------------- runs under one elevation all over a tick
\* as Spec, the satellites being at the same elevation angle over every
\* location in a tick
NextFrame ==
    \/ initialize /\ UNCHANGED aside
    \/ \E e \in Elevs : tick([i \in SatIdx |-> [l \in Locs |-> e]]) /\ UNCHANGED aside
    \/ tock /\ UNCHANGED aside
    \/ \E fireId \in FireIds : on_fire(fireId, FireLocation(fireId)) /\ UNCHANGED aside
    \/ \E groundId \in GroundIds, loc \in GroundLocs, elevAngle \in GroundElevAngles,
          operational \in BOOLEAN :
            /\ GroundRoom(groundId, MaxGrounds)
            /\ on_ground(groundId, loc, elevAngle, operational)
            /\ UNCHANGED aside

SpecFrame == Init /\ [][NextFrame]_vars

\* ------------------------------ on_fire and tick on two threads, no lock
\* the first statement of on_fire that changes the Constellation
on_fire_fires(fireId, loc) ==
    /\ racing = NoRace
    /\ Len(fires) < MaxFires
    /\ fires' = Append(fires, [fireId |-> fireId, loc |-> loc])
    /\ racing' = [pc |-> "detect", fireId |-> fireId, loc |-> loc]
    /\ UNCHANGED <<phase, time, next_time, grounds, detect, report, positions,
                   next_positions, min_elevations_fire, log, viewed, viewing, err>>

\* self.detect.append(detectDictionary)
on_fire_detect ==
    /\ racing.pc = "detect"
    /\ detect' = Append(detect, detectDictionary(racing.fireId))
    /\ racing' = [racing EXCEPT !.pc = "report"]
    /\ UNCHANGED <<phase, time, next_time, fires, grounds, report, positions,
                   next_positions, min_elevations_fire, log, viewed, viewing, err>>

\* self.report.append(reportDictionary)
on_fire_report ==
    /\ racing.pc = "report"
    /\ report' = Append(report, reportDictionary(racing.fireId))
    /\ racing' = NoRace
    /\ UNCHANGED <<phase, time, next_time, fires, grounds, detect, positions,
                   next_positions, min_elevations_fire, log, viewed, viewing, err>>

\* the loops of tick from satellite i and fire j on, in the order of the
\* code, over lists that need not have the length of fires; st.failed: an
\* index of detect or report was out of range, and the loops stopped there
RECURSIVE TickRun(_, _, _, _, _, _, _)
TickRun(st, i, j, elev, minElev, table, then) ==
    IF st.failed \/ i > NumSats THEN st
    ELSE IF j > Len(fires)
         THEN TickRun(st, i + 1, 1, elev, minElev, table, then)
         ELSE LET m1 == [st.m EXCEPT ![i] = minElev[i]]
              IN IF j > Len(st.d) THEN [st EXCEPT !.m = m1, !.failed = TRUE]
                 ELSE LET d1 == DetectStep(st.d[j], names[i],
                                           check_in_view(elev[i][fires[j].loc], minElev[i]),
                                           then)
                          ds == [st.d EXCEPT ![j] = d1]
                      IN IF d1[names[i]] = None
                         THEN TickRun([st EXCEPT !.m = m1, !.d = ds],
                                      i, j + 1, elev, minElev, table, then)
                         ELSE IF j > Len(st.r)
                              THEN [st EXCEPT !.m = m1, !.d = ds, !.failed = TRUE]
                              ELSE TickRun([st EXCEPT !.m = m1, !.d = ds,
                                               !.r = [st.r EXCEPT ![j] =
                                                   ReportStep(st.r[j], d1, names[i],
                                                              elev[i], table, then)]],
                                           i, j + 1, elev, minElev, table, then)

\* tick while on_fire may be between two of its appends
tick_racing(elev) ==
    IF racing = NoRace THEN tick(elev)
    ELSE /\ phase = "ready"
         /\ time < MaxTime
         /\ LET then == time + TimeStep
                nextPos == [i \in SatIdx |-> subpoint(i, then)]
                minElev == [i \in SatIdx |->
                               compute_min_elevation(nextPos[i].alt, FIELD_OF_REGARD[i])]
                run == TickRun([d |-> detect, r |-> report, m |-> min_elevations_fire,
                                failed |-> FALSE], 1, 1, elev, minElev, grounds.rows, then)
            IN /\ next_time' = then
               /\ next_positions' = nextPos
               /\ min_elevations_fire' = run.m
               /\ detect' = run.d
               /\ report' = run.r
               /\ viewing' = {v \in (DOMAIN fires) \X SatIdx :
                                  elev[v[2]][fires[v[1]].loc] >= minElev[v[2]]}
               /\ viewed' = viewed \cup viewing'
               /\ phase' = IF run.failed THEN "failed" ELSE "ticked"
               /\ err' = IF run.failed THEN "IndexError" ELSE "ok"
         /\ UNCHANGED <<time, fires, grounds, positions, log>>

NextRace ==
    \/ initialize /\ UNCHANGED aside
    \/ \E elev \in [SatIdx -> [Locs -> Elevs]] :
            tick_racing(elev) /\ UNCHANGED aside
    \/ tock /\ UNCHANGED aside
    \/ \E fireId \in FireIds :
            /\ on_fire_fires(fireId, FireLocation(fireId))
            /\ UNCHANGED <<lastCall, lastElev, handled, calc, envVars, geoVars>>
    \/ on_fire_detect /\ UNCHANGED <<lastCall, lastElev, handled, calc, envVars, geoVars>>
    \/ on_fire_report /\ UNCHANGED <<lastCall, lastElev, handled, calc, envVars, geoVars>>
    \/ \E groundId \in GroundIds, loc \in GroundLocs, elevAngle \in GroundElevAngles,
          operational \in BOOLEAN :
            /\ racing = NoRace
            /\ GroundRoom(groundId, MaxGrounds)
            /\ on_ground(groundId, loc, elevAngle, operational)
            /\ UNCHANGED aside

SpecRace == Init /\ [][NextRace]_vars

\* ------------------------------------------------- the geoJSON consumer
TopicDetected == "greenfield.constellation.detected"
TopicLocation == "greenfield.constellation.location"

\* what payload.get yields: the value of the key, None when the key is absent
NoradIds == {1, 2, None}
MessageTimes == {1, 2, None}

DetectedPayloads == [detected_by : NoradIds, detected : MessageTimes]
LocationPayloads == [noradId : NoradIds, time : MessageTimes, loc : GroundLocs]

\* the feature of a location message: a circle around its point, the id
\* made of the noradId, the date of the message
convert_location_to_geojson(location_message) ==
    [type |-> "FeatureCollection", name |-> "Constellation",
     geometry |-> location_message.loc,
     id |-> <<"NORAD", location_message.noradId, "mesh", 1>>,
     date |-> location_message.time,
     resolution |-> 1, price |-> 1500, cloudCoveragePercent |-> 12]

\* the file is read, the feature added at its end, the file written again
append_feature_to_file(file, new_feature) == Append(file, new_feature)

\* mutant: the pending detection is kept after a match
handle_message_NoReset(topic, payload) ==
    IF topic = TopicDetected
    THEN /\ detected_by' = payload.detected_by
         /\ detected_time' = payload.detected
         /\ UNCHANGED features
    ELSE IF topic = TopicLocation /\ detected_by # None /\ detected_time # None
         THEN IF detected_by = payload.noradId /\ detected_time = payload.time
              THEN /\ features' = append_feature_to_file(features,
                                       convert_location_to_geojson(payload))
                   /\ UNCHANGED <<detected_by, detected_time>>
              ELSE UNCHANGED <<detected_by, detected_time, features>>
         ELSE UNCHANGED <<detected_by, detected_time, features>>

handle_message(topic, payload) ==
    IF topic = TopicDetected
    THEN /\ detected_by' = payload.detected_by
         /\ detected_time' = payload.detected
         /\ UNCHANGED features
    ELSE IF topic = TopicLocation /\ detected_by # None /\ detected_time # None
         THEN IF detected_by = payload.noradId /\ detected_time = payload.time
              THEN /\ features' = append_feature_to_file(features,
                                       convert_location_to_geojson(payload))
                   /\ detected_by' = None
                   /\ detected_time' = None
              ELSE UNCHANGED <<detected_by, detected_time, features>>
         ELSE UNCHANGED <<detected_by, detected_time, features>>

\* the message handled is recorded
Received(topic, payload) ==
    /\ received' = Append(received, [topic |-> topic, payload |-> payload])
    /\ UNCHANGED <<constellationVars, lastCall, lastElev, handled, calc, racing, envVars>>

\* the queue is bound to the two topics
NextGeo ==
    \/ \E payload \in DetectedPayloads :
            /\ Len(received) < MaxMessages
            /\ handle_message(TopicDetected, payload)
            /\ Received(TopicDetected, payload)
    \/ \E payload \in LocationPayloads :
            /\ Len(received) < MaxMessages
            /\ handle_message(TopicLocation, payload)
            /\ Received(TopicLocation, payload)

SpecGeo == Init /\ [][NextGeo]_vars

\* ------------------------------------------- compute_min_elevation alone
Altitudes == {100 * h : h \in 0..MaxAltitude}
FieldsOfRegard == {0, 60, 120, 180, 240, 300, 360}

NextElevation ==
    \E altitude \in Altitudes, field_of_regard \in FieldsOfRegard :
        /\ calc' = [altitude |-> altitude, field_of_regard |-> field_of_regard,
                    result |-> compute_min_elevation(altitude, field_of_regard)]
        /\ UNCHANGED <<constellationVars, lastCall, lastElev, handled, racing, envVars, geoVars>>

SpecElevation == Init /\ [][NextElevation]_vars

\* ================================================================ claims
Detected(n) == log[n].kind = "detected"
Reported(n) == log[n].kind = "reported"
TickStep == phase = "ready" /\ phase' = "ticked"
TockStep == phase = "ticked" /\ phase' = "ready"

\* C1 (as claimed): over a run, a Detected notification is emitted at most
\* once for each tracked fire.
C1_DetectedAtMostOnce ==
    \A j \in DOMAIN detect :
        Cardinality({n \in DOMAIN log : Detected(n) /\ log[n].j = j}) <= 1

\* C2: a Detected notification for a fire is emitted only if some satellite
\* had the fire in view at some tick, and a fire that a satellite has in view
\* at a tick gets a Detected notification at the tock that follows that tick.
C2_DetectedIffInView ==
    /\ \A n \in DOMAIN log :
          Detected(n) => \E i \in SatIdx : <<log[n].j, i>> \in viewed
    /\ phase = "ready" =>
          \A v \in viewing :
              \E n \in DOMAIN log :
                  Detected(n) /\ log[n].j = v[1] /\ log[n].tock = time
                      /\ log[n].fireId = fires[v[1]].fireId

\* a tock has notified one fire that was in view while another tracked fire,
\* never in view, has no notification
C2_Witness ==
    /\ phase = "ready"
    /\ viewing # {}
    /\ \E j \in DOMAIN fires :
          /\ \A i \in SatIdx : <<j, i>> \notin viewed
          /\ \A n \in DOMAIN log : log[n].j # j

\* C3: every Reported notification of the run is preceded by a Detected
\* notification for the same fire, also when both come from the same tock.
C3_ReportedAfterDetected ==
    \A n \in DOMAIN log :
        Reported(n) =>
            \E m \in 1..(n - 1) :
                Detected(m) /\ log[m].j = log[n].j /\ log[m].fireId = log[n].fireId

\* a fire detected and reported in the same tick: its first Detected and its
\* Reported notification come from the same tock
C3_Witness ==
    \E n \in DOMAIN log :
        /\ Reported(n)
        /\ \A m \in DOMAIN log :
              (Detected(m) /\ log[m].j = log[n].j) => log[m].tock >= log[n].tock

\* C4 (as claimed): tick leaves the detection records, the report records and
\* the minimum elevation angles as they were.
C4_TickLeavesRecords ==
    [][TickStep => /\ detect' = detect
                   /\ report' = report
                   /\ min_elevations_fire' = min_elevations_fire]_vars

\* C5: only tock emits notifications: initialize, tick, on_fire and on_ground
\* leave the sequence of notifications as it is.
C5_OnlyTockNotifies == [][log' # log => TockStep]_vars

\* a tick has run after a tock that notified
C5_Witness == phase = "ticked" /\ log # <<>>

\* C6 (as claimed): a detection timestamp, once set, is never changed.
C6_DetectionWriteOnce ==
    [][\A j \in DOMAIN detect : \A s \in NameSet :
          detect[j][s] # None => detect'[j][s] = detect[j][s]]_vars

\* C7: once a satellite's detection entry of a fire is set, firstDetector is
\* non-null, and a non-null firstDetector never changes afterwards.
C7_FirstDetectorStable ==
    [][/\ \A j \in DOMAIN detect' :
             (\E s \in NameSet : detect'[j][s] # None)
                 => detect'[j].firstDetector # NoName
       /\ \A j \in DOMAIN detect :
             detect[j].firstDetector # NoName
                 => /\ j \in DOMAIN detect'
                    /\ detect'[j].firstDetector = detect[j].firstDetector]_vars

\* the second satellite detected the fire first and the first satellite, which
\* comes first in the loop, has detected it at a later tick
C7_Witness ==
    \E j \in DOMAIN detect :
        /\ detect[j].firstDetector = names[2]
        /\ detect[j][names[1]] # None
        /\ detect[j][names[1]] > detect[j][names[2]]

\* C8: firstDetector of a fire is non-null exactly when some satellite's
\* detection timestamp of that fire is non-null (in every state, so also
\* right after the tick that sets the first timestamp).
C8_FirstDetectorIffTimestamp ==
    \A j \in DOMAIN detect :
        (detect[j].firstDetector # NoName) <=> (\E s \in NameSet : detect[j][s] # None)

\* right after a tick that set a first timestamp, beside a fire without any
C8_Witness ==
    /\ phase = "ticked"
    /\ \E j \in DOMAIN detect :
          detect[j].firstDetector # NoName /\ detect[j][detect[j].firstDetector] = next_time
    /\ \E j \in DOMAIN detect : detect[j].firstDetector = NoName

\* C9: a satellite that never had a fire in view at a tick has a null
\* detection entry for that fire.
C9_NeverInViewStaysNull ==
    \A j \in DOMAIN detect : \A i \in SatIdx :
        <<j, i>> \notin viewed => detect[j][names[i]] = None

\* after two ticks, a fire seen by one satellite and never by the other
C9_Witness ==
    /\ time = 2
    /\ \E j \in DOMAIN detect : \E i, k \in SatIdx :
          /\ <<j, i>> \notin viewed
          /\ <<j, k>> \in viewed
          /\ detect[j][names[k]] # None

\* C10: a non-null report entry implies a non-null detection entry of the same
\* fire and satellite, and firstReporter non-null implies firstDetector non-null.
C10_ReportImpliesDetection ==
    \A j \in DOMAIN report :
        /\ \A s \in NameSet : report[j][s] # None => detect[j][s] # None
        /\ report[j].firstReporter # NoName => detect[j].firstDetector # NoName

\* one satellite has reported a fire that the other one, in range of the same
\* station, has not detected
C10_Witness ==
    \E j \in DOMAIN report : \E s, u \in NameSet :
        /\ report[j][s] # None
        /\ detect[j][u] = None
        /\ report[j][u] = None
        /\ Len(log) > 0

\* C11: a Reported notification is emitted at most once for each tracked fire,
\* by the tock that directly follows the tick in which firstReporter was
\* latched, and every tock ends with firstReport false for every fire.
C11_ReportedOnceAtLatch ==
    /\ \A j \in DOMAIN report :
          Cardinality({n \in DOMAIN log : Reported(n) /\ log[n].j = j}) <= 1
    /\ \A n \in DOMAIN log :
          Reported(n) =>
              /\ log[n].by = report[log[n].j].firstReporter
              /\ log[n].tock = report[log[n].j][log[n].by]
    /\ phase = "ready" =>
          \A j \in DOMAIN report :
              /\ ~report[j].firstReport
              /\ report[j].firstReporter # NoName
                     => \E n \in DOMAIN log : Reported(n) /\ log[n].j = j

\* a fire was reported at the first tock and a second tock has passed since
C11_Witness ==
    /\ phase = "ready"
    /\ \E n \in DOMAIN log : Reported(n) /\ log[n].tock < time

\* C12 (as claimed): firstDetect is false in every state after the tock that
\* follows the tick of the first detection (and before that tick).
C12_FirstDetectOnlyInStep ==
    phase = "ready" => \A j \in DOMAIN detect : ~detect[j].firstDetect

\* C13: the notifications of one tock are all its Detected notifications in
\* the order of the fires, then its Reported notifications in the order of
\* the fires.
C13_TockOrder ==
    \A n, m \in DOMAIN log :
        n < m =>
            /\ log[n].tock <= log[m].tock
            /\ log[n].tock = log[m].tock =>
                  /\ ~(Reported(n) /\ Detected(m))
                  /\ log[n].kind = log[m].kind => log[n].j < log[m].j

\* one tock notified two detections and two reports
C13_Witness ==
    \E t \in 1..MaxTime :
        /\ Cardinality({n \in DOMAIN log : Detected(n) /\ log[n].tock = t}) >= 2
        /\ Cardinality({n \in DOMAIN log : Reported(n) /\ log[n].tock = t}) >= 2

\* C14: after on_ground has handled an event, the registry holds exactly one
\* row for the event's groundId, and that row carries the position, the
\* elevAngle and the operational flag of the event (upsert, not append)
C14_UpsertByGroundId ==
    lastCall # NoCall =>
        LET same == {k \in DOMAIN grounds.rows : grounds.rows[k].groundId = lastCall.groundId}
        IN /\ Cardinality(same) = 1
           /\ \A k \in same : /\ grounds.rows[k].loc = lastCall.loc
                                /\ grounds.rows[k].elevAngle = lastCall.elevAngle
                                /\ grounds.rows[k].operational = lastCall.operational

\* C15: after on_ground has handled an event whose groundId no row carried,
\* the registry contains a row with that groundId and the event's values
C15_AppendsUnknown ==
    (lastCall # NoCall /\ lastCall.fresh) =>
        \E k \in DOMAIN grounds.rows :
            grounds.rows[k] = [groundId |-> lastCall.groundId, loc |-> lastCall.loc,
                               elevAngle |-> lastCall.elevAngle,
                               operational |-> lastCall.operational]

\* C16: the reported_to of every Reported notification is the groundId of an
\* operational ground station of the registry
C16_ReportedToIsGroundId ==
    \A n \in DOMAIN log : Reported(n) =>
        \E k \in DOMAIN grounds.rows : /\ grounds.rows[k].groundId = log[n].to
                                        /\ grounds.rows[k].operational

\* a station that is operational and whose required angle elevOf satisfies
InReach(elevOf, row) == row.operational /\ row.elevAngle <= elevOf[row.loc]

\* C17: over every registry on_ground builds and every elevation,
\* check_in_range is true exactly when some row is operational and in reach,
\* it returns the first such row in table order, it returns (false, None)
\* otherwise; and with no operational station no report entry is ever set
C17_CheckInRange ==
    /\ \A elevOf \in [Locs -> Elevs] :
          LET res == check_in_range(elevOf, grounds.rows)
              hits == {k \in DOMAIN grounds.rows : InReach(elevOf, grounds.rows[k])}
          IN /\ res.isInRange <=> hits # {}
             /\ res.isInRange => /\ res.groundId + 1 \in hits
                                  /\ \A k \in hits : res.groundId + 1 <= k
             /\ ~res.isInRange => res.groundId = None
    /\ (\A k \in DOMAIN grounds.rows : ~grounds.rows[k].operational) =>
          \A j \in DOMAIN report : \A name \in NameSet : report[j][name] = None

\* a satellite reported to the second station of the registry, the first one
\* being out of service or out of reach
C17_Witness ==
    /\ Len(grounds.rows) = 2
    /\ \E n \in DOMAIN log : Reported(n) /\ log[n].to = 1

\* C18: every Detected notification of a fire carries the fire's
\* firstDetector and the time of the tick that latched it, which is the time
\* of the tock that first notified the detection
C18_DetectedPayload ==
    \A n \in DOMAIN log : Detected(n) =>
        LET first == CHOOSE m \in DOMAIN log :
                        /\ Detected(m) /\ log[m].j = log[n].j
                        /\ \A k \in DOMAIN log : (Detected(k) /\ log[k].j = log[n].j) => m <= k
        IN /\ log[n].by = detect[log[n].j].firstDetector
           /\ log[n].when = log[first].tock

\* the place of a fireState on the path undefined, started, detected, reported
Rank(fireState) ==
    CASE fireState = "undefined" -> 0
      [] fireState = "started" -> 1
      [] fireState = "detected" -> 2
      [] fireState = "reported" -> 3

\* C19: in the fire application the fireState of a fire only moves forward
\* along undefined, started, detected, reported: no step takes a fire back
C19_FireStateForward ==
    [][\A fireId \in FireIds :
          Rank(envFires'[fireId].fireState) >= Rank(envFires[fireId].fireState)]_vars

\* C20: after one time-change notification or more, every fire whose start is
\* at or before the latest time has had FireStarted sent exactly once, and no
\* FireStarted is sent before the start of its fire
C20_StartedOnce ==
    /\ envTime > InitTime =>
          \A fireId \in FireIds : envFires[fireId].start <= envTime =>
              Cardinality({n \in DOMAIN sent : sent[n].fireId = fireId}) = 1
    /\ \A n \in DOMAIN sent : sent[n].at >= envFires[sent[n].fireId].start

\* C21: a message whose fireId matches no fire of the table leaves the table
\* unchanged, and a message with a matching fireId changes only the row of
\* that fire: every step that changes the table handles a message whose
\* fireId is in the table, and changes no other row
C21_UnknownFireIdNoOp ==
    [][envFires' # envFires =>
          /\ DOMAIN envFires' = DOMAIN envFires
          /\ handled'.fireId \in DOMAIN envFires
          /\ \A key \in DOMAIN envFires :
                key # handled'.fireId => envFires'[key] = envFires[key]]_vars

\* a FireDetected with an unknown fireId was handled while fires of the
\* table had been started, detected or reported
C21_Witness ==
    /\ handled.topic = "detected"
    /\ handled.fireId \notin DOMAIN envFires
    /\ \A key \in DOMAIN envFires : envFires[key].fireState # "undefined"

\* C22: compute_min_elevation returns 0.0 for every field of regard of 180
\* degrees or more, at any altitude
C22_ZeroFromHalfTurn ==
    (calc # NoCalc /\ calc.field_of_regard >= 180) => calc.result = 0

Min(S) == CHOOSE x \in S : \A y \in S : x <= y

\* the satellites that have fire j in view in the tick just taken
InViewNow(j) ==
    {i \in SatIdx : lastElev'[i][fires[j].loc] >= min_elevations_fire'[i]}

\* the stations in reach of satellite i in the tick just taken
StationsNow(i) ==
    {k \in DOMAIN grounds.rows : InReach(lastElev'[i], grounds.rows[k])}

\* the satellites that have detected fire j, had not reported it, and are in
\* range of a station in the tick just taken
ReportingNow(j) ==
    {i \in SatIdx : /\ detect'[j][names[i]] # None
                    /\ report[j][names[i]] = None
                    /\ StationsNow(i) # {}}

\* C23: when satellites first have a fire in view in a tick, firstDetector
\* is the first of them in satellite order; when eligible satellites first
\* come in range in a tick, firstReporter is the first of them in satellite
\* order and firstReportedTo is the station found for that satellite
C23_TieBySatelliteOrder ==
    [][TickStep => \A j \in DOMAIN fires :
          /\ (detect[j].firstDetector = NoName /\ InViewNow(j) # {}) =>
                 detect'[j].firstDetector = names[Min(InViewNow(j))]
          /\ (report[j].firstReporter = NoName /\ ReportingNow(j) # {}) =>
                 /\ report'[j].firstReporter = names[Min(ReportingNow(j))]
                 /\ report'[j].firstReportedTo
                        = Min(StationsNow(Min(ReportingNow(j)))) - 1]_vars

\* both satellites detected and reported the fire in the first tick, each in
\* range of another station, and the first satellite holds both latches
C23_Witness ==
    /\ phase = "ticked" /\ next_time = InitTime + TimeStep /\ Len(fires) = 1
    /\ \A name \in NameSet : detect[1][name] = next_time /\ report[1][name] = next_time
    /\ check_in_range(lastElev[1], grounds.rows).groundId
          # check_in_range(lastElev[2], grounds.rows).groundId
    /\ detect[1].firstDetector = names[1]
    /\ report[1].firstReporter = names[1]
    /\ report[1].firstReportedTo = check_in_range(lastElev[1], grounds.rows).groundId

\* the fireIds of a list of fires or of records, in list order
FireIdsOf(list) == [j \in DOMAIN list |-> list[j].fireId]

\* fires, detect and report have the same length and the same fireId at every
\* index, and every record has one entry per satellite name
Aligned(fs, ds, rs) ==
    /\ Len(ds) = Len(fs) /\ Len(rs) = Len(fs)
    /\ FireIdsOf(ds) = FireIdsOf(fs) /\ FireIdsOf(rs) = FireIdsOf(fs)
    /\ \A j \in DOMAIN ds : DOMAIN ds[j] = NameSet \cup {"fireId", "firstDetect", "firstDetector"}
    /\ \A j \in DOMAIN rs :
          DOMAIN rs[j] = NameSet \cup {"fireId", "firstReport", "firstReporter", "firstReportedTo"}

\* C24: in every state of a serialized run fires, detect and report are
\* index-aligned with one entry per satellite in every record, and tick,
\* tock and on_ground never add, remove or reorder fires or records
C24_IndexAligned ==
    [][/\ Aligned(fires, detect, report)
       /\ Aligned(fires', detect', report')
       /\ (TickStep \/ TockStep \/ grounds' # grounds \/ err' = "AttributeError") =>
             /\ fires' = fires
             /\ FireIdsOf(detect') = FireIdsOf(detect)
             /\ FireIdsOf(report') = FireIdsOf(report)]_vars

\* two fires of different fireId, a station, and a tick and a tock over them
C24_Witness ==
    /\ Len(fires) = 2 /\ fires[1].fireId # fires[2].fireId
    /\ Len(grounds.rows) > 0
    /\ phase = "ready" /\ time > InitTime
    /\ \E j \in DOMAIN detect : detect[j].firstDetector # NoName

\* a record of fireId with every satellite entry null
NullFilled(rec, fireId) ==
    /\ rec.fireId = fireId
    /\ \A name \in NameSet : rec[name] = None

\* C25: every on_fire call appends one fire, one detection record and one
\* report record, null-filled and of the event's fireId, whether that fireId
\* is tracked already or not, and leaves the existing ones unchanged
C25_OnFireAppends ==
    [][fires' # fires =>
          /\ Len(fires') = Len(fires) + 1
          /\ SubSeq(fires', 1, Len(fires)) = fires
          /\ Len(detect') = Len(detect) + 1
          /\ SubSeq(detect', 1, Len(detect)) = detect
          /\ Len(report') = Len(report) + 1
          /\ SubSeq(report', 1, Len(report)) = report
          /\ LET fireId == fires'[Len(fires')].fireId
                 d == detect'[Len(detect')]
                 r == report'[Len(report')]
             IN /\ NullFilled(d, fireId) /\ ~d.firstDetect /\ d.firstDetector = NoName
                /\ NullFilled(r, fireId) /\ ~r.firstReport /\ r.firstReporter = NoName
                /\ r.firstReportedTo = None]_vars

\* a second fire with the fireId of a fire already detected, tracked next to
\* it with null-filled records
C25_Witness ==
    /\ Len(fires) = 2 /\ fires[1].fireId = fires[2].fireId
    /\ detect[1].firstDetector # NoName /\ report[1].firstReporter # NoName
    /\ detect[2].firstDetector = NoName /\ detect[2][names[1]] = None
    /\ report[2].firstReporter = NoName

InitializeStep == phase = "new" /\ phase' = "ready"

\* C26: positions changes only in initialize and tock; tick leaves it
\* unchanged and assigns next_positions; after every tock positions is the
\* next_positions the last tick computed, the positions at the new time
C26_PositionsAtTock ==
    [][/\ ~(InitializeStep \/ TockStep) => positions' = positions
       /\ TickStep => /\ positions' = positions
                       /\ \A i \in SatIdx : next_positions'[i].t = time + TimeStep
       /\ TockStep => /\ positions' = next_positions
                       /\ \A i \in SatIdx : positions'[i].t = time']_vars

\* after a tock, a tick has computed the next positions and positions still
\* holds those of the tock
C26_Witness ==
    /\ phase = "ticked" /\ time > InitTime
    /\ \A i \in SatIdx : positions[i].t = time /\ next_positions[i].t = next_time
    /\ positions # next_positions

\* C27: initialize sets positions and next_positions to the positions at the
\* initial time, makes the ground registry an empty table, and leaves the
\* fires and their records unchanged
C27_InitializeFrame ==
    [][InitializeStep =>
          /\ \A i \in SatIdx : /\ positions'[i].t = InitTime
                                 /\ positions'[i].alt = Altitude(i, InitTime)
          /\ next_positions' = positions'
          /\ grounds'.frame /\ grounds'.rows = <<>>
          /\ fires' = fires /\ detect' = detect /\ report' = report]_vars

\* initialized with fires tracked and nothing else done
C27_Witness ==
    /\ phase = "ready" /\ time = InitTime /\ log = <<>>
    /\ Len(fires) = 2 /\ Len(detect) = 2 /\ Len(report) = 2
    /\ grounds.frame /\ grounds.rows = <<>>
    /\ positions = next_positions /\ \A i \in SatIdx : positions[i].t = InitTime

\* C28: a report timestamp, once set, is never changed; firstReporter and
\* firstReportedTo, once set, are never reassigned; and every Reported
\* notification carries these latched values
C28_ReportWriteOnce ==
    [][/\ \A j \in DOMAIN report :
             /\ \A name \in NameSet :
                   report[j][name] # None => report'[j][name] = report[j][name]
             /\ report[j].firstReporter # NoName =>
                   /\ report'[j].firstReporter = report[j].firstReporter
                   /\ report'[j].firstReportedTo = report[j].firstReportedTo
       /\ \A n \in DOMAIN log' : log'[n].kind = "reported" =>
             /\ log'[n].by = report'[log'[n].j].firstReporter
             /\ log'[n].to = report'[log'[n].j].firstReportedTo
             /\ log'[n].when = report'[log'[n].j][log'[n].by]]_vars

\* both satellites reported the fire, the second at a later tick than the
\* first, over a registry of two stations, and the first report was notified
C28_Witness ==
    /\ Len(report) = 1 /\ Len(grounds.rows) = 2
    /\ report[1][names[1]] # None /\ report[1][names[2]] # None
    /\ report[1][names[1]] # report[1][names[2]]
    /\ \E n \in DOMAIN log : Reported(n) /\ log[n].when < time

\* C29: with on_fire interleaved with tick, tick never reads detect[j] or
\* report[j] at an index where no record exists yet
C29_NoOutOfRange == err # "IndexError"

\* C30: on_ground can be applied in every reachable state, before initialize
\* too, without failing
C30_OnGroundNeverFails == err # "AttributeError"

\* the detected messages among the messages received
DetectedReceived(msgs) == {n \in DOMAIN msgs : msgs[n].topic = TopicDetected}

\* C31: a feature is appended only when a location message arrives while a
\* detection is pending and its noradId and time equal the pending
\* detected_by and detected time; appending clears the pending detection;
\* the features never outnumber the detected messages received; and a
\* location message received while no detection is pending appends nothing
C31_AppendOnlyOnMatch ==
    [][LET msg == received'[Len(received')]
           pending == detected_by # None /\ detected_time # None
       IN /\ features' # features =>
                /\ msg.topic = TopicLocation
                /\ pending
                /\ msg.payload.noradId = detected_by
                /\ msg.payload.time = detected_time
                /\ Len(features') = Len(features) + 1
                /\ SubSeq(features', 1, Len(features)) = features
                /\ detected_by' = None /\ detected_time' = None
          /\ (msg.topic = TopicLocation /\ ~pending) => features' = features
          /\ Len(features') <= Cardinality(DetectedReceived(received'))]_vars

\* one detected message, the location message that matches it, then the
\* same location message again: one feature in the file, nothing pending
C31_Witness ==
    /\ Len(received) = 3 /\ Len(features) = 1
    /\ received[1].topic = TopicDetected
    /\ received[2].topic = TopicLocation /\ received[3] = received[2]
    /\ received[2].payload.noradId = received[1].payload.detected_by
    /\ received[2].payload.time = received[1].payload.detected
    /\ detected_by = None /\ detected_time = None

====
